---- MODULE Spec2Model ----
(***************************************************************************)
(* The real-time audio-to-response pipeline of the AI DM listener:         *)
(*   - the per-chunk handler of src/main/index.ts (setupAudioProcessing),  *)
(*   - the module state of index.ts that the handler reads and writes,     *)
(*   - PythonService (isReady / process / request),                        *)
(*   - OllamaService.generateResponse and its conversation history,        *)
(*   - AudioCapture (start / stop / addAudioData / processBuffer / VAD).   *)
(*                                                                         *)
(* One action is one turn of the Node event loop: the code that runs from  *)
(* the moment an awaited promise settles (or an event is delivered) up to  *)
(* the next await that really suspends.                                    *)
(***************************************************************************)
EXTENDS Integers, Sequences, FiniteSets, TLC

(***************************************************************************)
(* Bounds of the model.                                                    *)
(***************************************************************************)
\* 'chunk' events delivered to the handler in a behaviour of Spec
MaxChunks == 1

\* SpecOverlap delivers one chunk more, so that two runs of the handler overlap
OverlapChunks == MaxChunks + 1

\* tool calls in one answer of the language model, in a behaviour of SpecParse
MaxToolCalls == 2

\* calls of startCapture and stopCapture in a behaviour of SpecHook
MaxHookCalls == 4

\* calls made on the AudioCapture object (timer callbacks included) in a
\* behaviour of SpecCapture
MaxOps == 5

(***************************************************************************)
(* Program constants.                                                      *)
(***************************************************************************)
\* index.ts:21
MAX_TRANSCRIPT_HISTORY == 10

\* index.ts:118, the 0.6 of `diarization.confidence < 0.6`, in percent
LOW_CONFIDENCE_PCT == 60

\* audioCapture.ts:16, 0.01 in thousandths
VAD_ENERGY_THRESHOLD == 10

\* audioCapture.ts:18
VAD_MIN_SPEECH_SAMPLES == 800

\* part_009:192, the 10 of conversationHistory.slice(-10)
HISTORY_LIMIT == 10

\* SpecHistory lets generateResponse return once more than that
HistoryCalls == HISTORY_LIMIT + 1

\* part_013:591, "Processing Queue: FIFO with max 10 chunks"
QUEUE_CAP == 10

\* SpecBacklog delivers one chunk more than the cap
BacklogChunks == QUEUE_CAP + 1

\* lengths of recentTranscriptBuffer the exploration starts from: the empty
\* buffer of a fresh process, and a full one
PrefillLens == {0, MAX_TRANSCRIPT_HISTORY}

VARIABLES
    mainWindow,               \* index.ts:8    TRUE iff mainWindow is not null
    recentTranscriptBuffer,   \* index.ts:17
    isReady,                  \* PythonService.isReady
    process,                  \* PythonService.process is not null
    startupPromise,           \* PythonService.startupPromise: "none" | "pending" | "resolved" | "rejected"
    spawns,                   \* how many times PythonService._start called spawn
    stopsSeen,                \* the calls of PythonService.stop recorded: before or after start
    conversationHistory,      \* OllamaService.conversationHistory
    currentSceneMode,         \* index.ts:15
    currentSceneDescription,  \* index.ts:16
    activeNPCs,               \* index.ts:18
    characterStatsCache,      \* index.ts:19
    runs,                     \* one record per invocation of the 'chunk' listener, in emission order
    sent,                     \* what webContents.send delivered on 'transcript-update',
                              \* 'low-confidence' and 'dm-response', in order
    sentFlags,                \* AudioCapture.isCapturing at each of these sends, in order
    appended,                 \* entries pushed on recentTranscriptBuffer since the last clear
    isCapturing,              \* AudioCapture.isCapturing
    audioBuffer,              \* AudioCapture.audioBuffer
    chunkInterval,            \* AudioCapture.chunkInterval: a timer id, 0 for null
    timers,                   \* ids of the intervals set and not cleared
    captureEvents,            \* events AudioCapture emitted, in order
    callLog,                  \* the calls made on AudioCapture, each with the chunks it emitted
    chunkFlags,               \* this.isCapturing at each emit('chunk'), in order
    pushed,                   \* the arrays addAudioData pushed on audioBuffer, in order
    gated,                    \* the buffers processBuffer concatenated for the gate, in order
    dataMessage,              \* part_009:211, data.message of the answer being parsed
    decision,                 \* part_009:217-242, what generateResponse returns for it
    isCapturingRef,           \* useAudioCapture.ts, isCapturingRef.current
    mediaStreamRef,           \* mediaStreamRef.current: a stream id, 0 for null
    audioContextRef,          \* audioContextRef.current: a context id, 0 for null
    processorRef,             \* processorRef.current: a processor id, 0 for null
    openStreams,              \* the microphone streams obtained whose tracks were not stopped
    openContexts,             \* the audio contexts created and not closed
    openProcessors,           \* the script processors connected and not disconnected
    pendingStarts,            \* the startCapture calls that await getUserMedia
    pendingStops,             \* the contexts whose close() a stopCapture call awaits
    hookCalls                 \* how many times startCapture or stopCapture was called

contextVars == <<currentSceneMode, currentSceneDescription, activeNPCs, characterStatsCache>>

parseVars == <<dataMessage, decision>>

serviceVars == <<spawns, stopsSeen>>

hookVars ==
    <<isCapturingRef, mediaStreamRef, audioContextRef, processorRef, openStreams, openContexts,
      openProcessors, pendingStarts, pendingStops, hookCalls>>

envVars ==
    <<mainWindow, isReady, process, startupPromise, serviceVars, contextVars, parseVars,
      hookVars>>

runVars == <<runs, sent, sentFlags, appended, recentTranscriptBuffer, conversationHistory>>

captureVars ==
    <<isCapturing, audioBuffer, chunkInterval, timers, captureEvents, callLog, chunkFlags,
      pushed, gated>>

vars == <<envVars, runVars, captureVars>>

Chunks == DOMAIN runs

(***************************************************************************)
(* Strings.  A string is a sequence of characters; 0 is the blank and a    *)
(* positive number is a printing character.  The text heard in chunk c is  *)
(* written with the character c, so an utterance names its chunk.          *)
(***************************************************************************)
WS == 0

RECURSIVE TrimStart(_)
TrimStart(s) == IF s # <<>> /\ Head(s) = WS THEN TrimStart(Tail(s)) ELSE s

RECURSIVE TrimEnd(_)
TrimEnd(s) == IF s # <<>> /\ s[Len(s)] = WS THEN TrimEnd(SubSeq(s, 1, Len(s) - 1)) ELSE s

\* String.prototype.trim
Trim(s) == TrimEnd(TrimStart(s))

\* a string in a boolean position: the empty string is falsy
Truthy(s) == s # <<>>

Last(s) == s[Len(s)]

\* Array.prototype.slice(-n)
SliceLast(s, n) == IF Len(s) <= n THEN s ELSE SubSeq(s, Len(s) - n + 1, Len(s))


(***************************************************************************)
(* Values exchanged with the services.                                     *)
(***************************************************************************)
NoVoice == "none"
NoAudio == "none"

\* index.ts:95-98, the speaker used when diarization is unavailable
DefaultDiarization == [speaker_id |-> "unknown", confidence |-> 0]

\* what /transcribe can answer for chunk c: nothing, blanks, an utterance
TranscribeResults(c) == { [text |-> <<>>], [text |-> <<WS>>], [text |-> <<WS, c>>] }

\* a /diarize answer of status 200 whose body is null: the value has no
\* speaker_id and no confidence, and reading either throws
NullDiarization == [speaker_id |-> "null", confidence |-> 0]

\* what /diarize can answer: a confident match, a doubtful match, null
DiarizeResults ==
    { [speaker_id |-> "alice", confidence |-> 90],
      [speaker_id |-> "alice", confidence |-> 50],
      NullDiarization }

\* what /detect_intent can answer
IntentResults == { [should_respond |-> TRUE], [should_respond |-> FALSE] }

\* what /search_knowledge can answer: results[].content
KnowledgeResults == { <<>>, <<"lore">> }

\* what /synthesize can answer
SynthesizeResults == { [audio_data |-> "wav"] }

\* an element of data.message.tool_calls: `function` and `arguments` tell
\* whether the element has a function and the function has arguments
ToolCall(name, text, voice) ==
    [ function |-> TRUE, arguments |-> TRUE,
      name |-> name, text |-> text, npc_voice |-> voice ]

\* a tool call without function
NoFunctionCall ==
    [ function |-> FALSE, arguments |-> FALSE,
      name |-> "", text |-> <<>>, npc_voice |-> NoVoice ]

\* a tool call whose function has a name and no arguments
NoArgumentsCall(name) ==
    [ function |-> TRUE, arguments |-> FALSE,
      name |-> name, text |-> <<>>, npc_voice |-> NoVoice ]

\* data.message of an /api/chat answer of status 200 that has no message
UndefinedMessage == [tool_calls |-> <<>>, content |-> <<>>, undefined |-> TRUE]

\* data.message of an /api/chat answer: a speak call, a speak call without
\* text, a wait call, a free text, and the answers without message, with a
\* tool call without function, with a speak call without arguments
LLMMessages ==
    { [tool_calls |-> <<ToolCall("tts_respond", <<9>>, "Grog")>>, content |-> <<>>],
      [tool_calls |-> <<ToolCall("tts_respond", <<>>, NoVoice)>>, content |-> <<>>],
      [tool_calls |-> <<ToolCall("wait_ignore", <<>>, NoVoice)>>, content |-> <<>>],
      [tool_calls |-> <<>>, content |-> <<WS, 9>>],
      UndefinedMessage,
      [tool_calls |-> <<NoFunctionCall>>, content |-> <<>>],
      [tool_calls |-> <<NoArgumentsCall("tts_respond")>>, content |-> <<>>] }

\* the answers the renderer's calls of generateResponse are explored with:
\* one that carries a message and one that carries none
HistoryMessages ==
    { [tool_calls |-> <<ToolCall("tts_respond", <<9>>, "Grog")>>, content |-> <<>>],
      UndefinedMessage }

NoResponse == [action |-> "none", text |-> <<>>, npcVoice |-> NoVoice]

\* generateResponse did not return: it threw
Threw == [action |-> "error", text |-> <<>>, npcVoice |-> NoVoice]

\* the answers the parsing is explored with: no message, or a message with
\* up to MaxToolCalls tool calls, of the two tools offered (part_009:130-165)
\* or of another name, without function or without arguments, and a content
\* that is empty, blank, a text between blanks, or a text
ToolCalls ==
    { ToolCall("tts_respond", text, voice) : text \in {<<>>, <<9>>}, voice \in {NoVoice, "Grog"} }
        \cup { ToolCall("wait_ignore", <<>>, NoVoice), ToolCall("roll_dice", <<>>, NoVoice) }
        \cup { NoFunctionCall, NoArgumentsCall("tts_respond"), NoArgumentsCall("wait_ignore") }

Contents == { <<>>, <<WS>>, <<WS, 9, WS>>, <<9>> }

Messages ==
    { [tool_calls |-> calls, content |-> content] :
        calls \in UNION { [1..k -> ToolCalls] : k \in 0..MaxToolCalls },
        content \in Contents }
      \cup { UndefinedMessage }

NoMessage == [tool_calls |-> <<>>, content |-> <<>>]

\* userContent of generateResponse: `[speaker]: text`, or the waiting prompt
Utterance(e) == [kind |-> "utterance", speaker |-> e.speaker, text |-> e.text]
WaitingPrompt == [kind |-> "waiting", speaker |-> "", text |-> <<>>]
Reply(content) == [kind |-> "reply", speaker |-> "", text |-> content]

\* index.ts:15-19: the scene context as the module is loaded
DefaultContext ==
    [ sceneMode |-> "exploration", sceneDescription |-> "The adventure continues...",
      activeNPCs |-> <<>>, characterStats |-> "" ]

\* what the 'dm-set-*' handlers can be given
SceneModes == {"combat", "exploration", "rp"}
SceneDescriptions == {"The adventure continues...", "A tavern"}
NPCLists == { <<>>, <<"Grog">> }
CharacterStats == {"", "Fighter 3"}

\* index.ts:144-149: the scene fields of the context given to generateResponse
CurrentContext ==
    [ sceneMode |-> currentSceneMode, sceneDescription |-> currentSceneDescription,
      activeNPCs |-> activeNPCs, characterStats |-> characterStatsCache ]

\* a lookup that answers the exploration temperature whatever the mode; C23
\* tells it from the configuration's
TemperatureOfExploration(mode) == 9

\* part_009:21-25, config.temperature[sceneMode], in tenths
Temperature(mode) ==
    CASE mode = "combat" -> 7
      [] mode = "exploration" -> 9
      [] mode = "rp" -> 8

\* part_009:92-96, modeDescriptions[sceneMode], named by its first words
ModeDescription(mode) ==
    CASE mode = "combat" -> "Combat mode - Be tactical, concise, and action-focused."
      [] mode = "exploration" -> "Exploration mode - Be descriptive and atmospheric."
      [] mode = "rp" -> "Roleplay mode - Be character-driven and intimate."

\* part_009:175-176 and 185-202: what the body of the /api/chat request takes
\* from the scene mode of the context
ChatRequest(context) ==
    [ temperature |-> Temperature(context.sceneMode),
      mode |-> ModeDescription(context.sceneMode) ]

NoRequest == [temperature |-> 0, mode |-> ""]

(***************************************************************************)
(* One invocation of the 'chunk' handler.                                  *)
(*   pc    "idle"                  the chunk has not been emitted yet      *)
(*         a service method name   suspended at the await of that call     *)
(*         "done"                  the handler's promise resolved          *)
(*         "thrown"                the handler's promise rejected          *)
(*   exit  why the run ended                                               *)
(*   calls the service methods the run invoked, in order                   *)
(*   timedOut  the call of the run that the server never answered, "none"  *)
(*             if every call was answered or failed                        *)
(*   endless   the server answers the call the run awaits with a body it   *)
(*             never finishes                                              *)
(*   startContext  the scene context in force when the handler was entered *)
(*   context       the scene context the run gave to generateResponse      *)
(*   request       what generateResponse sent to /api/chat for it          *)
(* A run of the 'dm-force-response' handler (index.ts:404-454) is a record *)
(* of the same shape, of kind "forced", with the promptText it was given.  *)
(***************************************************************************)
IdleRun ==
    [ id |-> 0, kind |-> "chunk", prompt |-> <<>>,
      pc |-> "idle", exit |-> "none", error |-> "none", timestamp |-> 0,
      startContext |-> DefaultContext, context |-> DefaultContext,
      text |-> <<>>, diarization |-> DefaultDiarization, diarizeFailed |-> FALSE,
      intent |-> "none", userContent |-> WaitingPrompt,
      request |-> NoRequest,
      response |-> NoResponse, synthesized |-> "none", calls |-> <<>>,
      timedOut |-> "none", endless |-> FALSE ]

\* The state one turn of the handler works on.
World(run) ==
    [ run |-> run, buf |-> recentTranscriptBuffer, app |-> appended,
      sent |-> sent, hist |-> conversationHistory ]

Commit(w) ==
    /\ runs' = IF w.run.id \in Chunks THEN [runs EXCEPT ![w.run.id] = w.run]
                                      ELSE Append(runs, w.run)
    /\ recentTranscriptBuffer' = w.buf
    /\ appended' = w.app
    /\ sent' = w.sent
    /\ sentFlags' = sentFlags \o [i \in 1..(Len(w.sent) - Len(sent)) |-> isCapturing]
    /\ conversationHistory' = w.hist

Finish(w, exit) == [w EXCEPT !.run.pc = "done", !.run.exit = exit]
Await(w, method) == [w EXCEPT !.run.pc = method]
Call(w, method) == [w EXCEPT !.run.calls = Append(@, method)]

(***************************************************************************)
(* mainWindow.webContents.send                                             *)
(***************************************************************************)
Event(type, run, audio) ==
    [ type |-> type, chunk |-> run.id, text |-> run.text,
      speakerId |-> run.diarization.speaker_id,
      confidence |-> run.diarization.confidence,
      timestamp |-> run.timestamp, audioData |-> audio, npcVoice |-> NoVoice ]

\* the payload of index.ts:128-131
TranscriptUpdate(run) == Event("transcript-update", run, NoAudio)

\* index.ts:119-123
LowConfidence(run) == Event("low-confidence", run, NoAudio)

\* index.ts:156-160 and 164-167
DmResponse(run, audio) ==
    [ Event("dm-response", run, audio) EXCEPT
        !.text = run.response.text, !.npcVoice = run.response.npcVoice ]

Send(w, event) == [w EXCEPT !.sent = Append(@, event)]

(***************************************************************************)
(* PythonService                                                           *)
(***************************************************************************)
\* a getter that forgets the child process; C5 tells it from `running`
RunningIfReady == isReady

\* get running(), audioCapture.ts:559-561
Running == isReady /\ process

(***************************************************************************)
(* The try blocks of the handler: the catch clause that receives an        *)
(* exception raised at a place of the handler.                             *)
(*   "diarization"  catch (diarizationError), index.ts:102-105             *)
(*   "tts"          catch (ttsError),         index.ts:161-168             *)
(*   "outer"        catch (error),            index.ts:171-173             *)
(*   "none"         no clause: the handler's promise rejects               *)
(***************************************************************************)
OuterSites ==
    { "float32ToWav", "transcribe", "trim", "readSpeaker", "sendLowConfidence", "sendTranscript",
      "detectIntent", "searchKnowledge", "generateResponse", "sendText" }

\* try blocks whose outer clause ends before the response is sent; C4 tells
\* them from the handler's
CatchOfNarrow(site) ==
    CASE site = "diarize" -> "diarization"
      [] site \in {"synthesize", "sendAudio"} -> "tts"
      [] site \in OuterSites \ {"sendText"} -> "outer"
      [] OTHER -> "none"

CatchOf(site) ==
    CASE site = "diarize" -> "diarization"
      [] site \in {"synthesize", "sendAudio"} -> "tts"
      [] site \in OuterSites -> "outer"
      [] OTHER -> "none"

RECURSIVE Throw(_, _)

\* PythonService.request, audioCapture.ts:566-585: the call is refused before
\* any fetch when the service is not ready, otherwise the caller suspends
Request(w, method) ==
    LET w1 == Call(w, method)
    IN  IF isReady THEN Await(w1, method) ELSE Throw(w1, method)

\* a catch (ttsError) that only logs; C8 tells it from the handler's
TextOnlyLogged(w) == Finish(w, "responded")

\* index.ts:161-168: the text-only response
TextOnly(w) ==
    IF mainWindow
    THEN Finish(Send(w, DmResponse(w.run, NoAudio)), "responded")
    ELSE Throw(w, "sendText")

\* index.ts:155-160: synthesize has answered
WithAudio(w, audio) ==
    LET w1 == [w EXCEPT !.run.synthesized = "ok"]
    IN  IF mainWindow
        THEN Finish(Send(w1, DmResponse(w1.run, audio.audio_data)), "responded")
        ELSE Throw(w1, "sendAudio")

\* index.ts:152: response.action === 'respond' && response.text
Speaks(response) == response.action = "respond" /\ Truthy(response.text)

\* index.ts:152-169
Decide(w, response) ==
    LET w1 == [w EXCEPT !.run.response = response]
    IN  IF Speaks(response) THEN Request(w1, "synthesize") ELSE Finish(w1, "silent")

(***************************************************************************)
(* OllamaService.generateResponse                                          *)
(***************************************************************************)
\* part_009:178-182
UserContent(recentTranscript) ==
    IF recentTranscript # <<>> THEN Utterance(Last(recentTranscript)) ELSE WaitingPrompt

\* part_009:215, 220, 221 and 226: the reads that throw a TypeError:
\* message.content without message, toolCall.function.name without function,
\* args.text without arguments
ParseThrows(message) ==
    LET toolCall == message.tool_calls[1]
    IN  \/ message = UndefinedMessage
        \/ /\ message.tool_calls # <<>>
           /\ \/ ~toolCall.function
              \/ toolCall.name = "tts_respond" /\ ~toolCall.arguments

\* part_009:217-242
ParseDecision(message) ==
    LET toolCall == message.tool_calls[1]
    IN  IF ParseThrows(message) THEN Threw
        ELSE IF message.tool_calls # <<>> /\ toolCall.name = "tts_respond"
        THEN [action |-> "respond", text |-> toolCall.text, npcVoice |-> toolCall.npc_voice]
        ELSE IF message.tool_calls # <<>> /\ toolCall.name = "wait_ignore"
        THEN [action |-> "wait", text |-> <<>>, npcVoice |-> NoVoice]
        ELSE IF Truthy(message.content) /\ Truthy(Trim(message.content))
        THEN [action |-> "respond", text |-> Trim(message.content), npcVoice |-> NoVoice]
        ELSE [action |-> "wait", text |-> <<>>, npcVoice |-> NoVoice]

\* part_009:213-215: the second push reads message.content and throws when
\* the answer has no message, after the first push
PushHistory(hist, userContent, message) ==
    IF message = UndefinedMessage
    THEN Append(hist, [role |-> "user", content |-> userContent])
    ELSE hist \o << [role |-> "user", content |-> userContent],
                    [role |-> "assistant", content |-> Reply(message.content)] >>

\* recentTranscript of the context: index.ts:146 for a chunk, index.ts:420-422
\* for a forced response
RecentTranscript(w) ==
    IF w.run.kind = "forced" /\ Truthy(w.run.prompt)
    THEN Append(w.buf, [speaker |-> "DM Prompt", text |-> w.run.prompt])
    ELSE w.buf

\* part_009:175-202, called from index.ts:142-150 and from index.ts:417-426
StartGenerate(w, knowledge) ==
    LET w1 == [w EXCEPT !.run.userContent = UserContent(RecentTranscript(w)),
                        !.run.context = CurrentContext,
                        !.run.request = ChatRequest(CurrentContext)]
    IN  Await(Call(w1, "generateResponse"), "generateResponse")

\* part_009:208-247 followed by index.ts:152-169: an exception of the parsing
\* is logged and thrown again by generateResponse, after the pushes
Generated(w, message) ==
    LET w1 == [w EXCEPT !.hist = PushHistory(w.hist, w.run.userContent, message)]
    IN  IF ParseDecision(message) = Threw THEN Throw(w1, "generateResponse")
        ELSE Decide(w1, ParseDecision(message))

(***************************************************************************)
(* The handler, index.ts:77-174, one operator per stretch between awaits.  *)
(***************************************************************************)
\* a handler that answers whatever the intent; C7 tells it from the handler's
ShouldRespondAlways(intent) == TRUE

\* index.ts:137-139
ShouldRespond(intent) == intent.should_respond

Intended(w, intent) ==
    LET w1 == [w EXCEPT !.run.intent = IF intent.should_respond THEN "yes" ELSE "no"]
    IN  IF ShouldRespond(intent) THEN Request(w1, "searchKnowledge")
        ELSE Finish(w1, "nointent")

\* a truncation that keeps the oldest entries; C3 tells it from KeepLast
KeepFirst(buffer) ==
    IF Len(buffer) > MAX_TRANSCRIPT_HISTORY
    THEN SubSeq(buffer, 1, MAX_TRANSCRIPT_HISTORY)
    ELSE buffer

\* index.ts:113-115
KeepLast(buffer) ==
    IF Len(buffer) > MAX_TRANSCRIPT_HISTORY
    THEN SliceLast(buffer, MAX_TRANSCRIPT_HISTORY)
    ELSE buffer

\* index.ts:118
IsLowConfidence(d) == d.confidence < LOW_CONFIDENCE_PCT /\ d.speaker_id # "unknown"

\* index.ts:127-132
Publish(w) == Send(w, TranscriptUpdate(w.run))

\* index.ts:107-135: the speaker of a null answer is read at index.ts:109,
\* before the push
Diarized(w, d) ==
    LET entry == [speaker |-> d.speaker_id, text |-> w.run.text]
        w1 == [w EXCEPT !.run.diarization = d,
                        !.buf = KeepLast(Append(w.buf, entry)),
                        !.app = Append(w.app, entry)]
        w2 == IF IsLowConfidence(d) THEN Send(w1, LowConfidence(w1.run)) ELSE w1
    IN  IF d = NullDiarization
        THEN Throw([w EXCEPT !.run.diarization = d], "readSpeaker")
        ELSE IF IsLowConfidence(d) /\ ~mainWindow THEN Throw(w1, "sendLowConfidence")
        ELSE IF ~mainWindow THEN Throw(w2, "sendTranscript")
        ELSE Request(Publish(w2), "detectIntent")

\* a handler that tests the text without trimming it; C24 tells it from the
\* handler's
TranscribedUntrimmed(w, transcription) ==
    IF ~Truthy(transcription.text) THEN Finish(w, "empty")
    ELSE Request([w EXCEPT !.run.text = transcription.text], "diarize")

\* index.ts:92-101
Transcribed(w, transcription) ==
    IF ~Truthy(Trim(transcription.text)) THEN Finish(w, "empty")
    ELSE Request([w EXCEPT !.run.text = transcription.text], "diarize")

\* index.ts:78-91
OnChunk(w) ==
    IF ~mainWindow THEN Finish(w, "nowindow")
    ELSE IF ~Running THEN Finish(w, "notrunning")
    ELSE Request(w, "transcribe")

\* a forced response that asks the intent classifier first; C13 tells it from
\* the handler's
OnForceViaIntent(w) ==
    IF ~mainWindow THEN Finish(w, "nowindow")
    ELSE IF ~Running THEN Finish(w, "notrunning")
    ELSE Request(w, "detectIntent")

\* index.ts:405-414: the 'dm-force-response' handler up to its first await
OnForce(w) ==
    IF ~mainWindow THEN Finish(w, "nowindow")
    ELSE IF ~Running THEN Finish(w, "notrunning")
    ELSE Request(w, "searchKnowledge")

\* an exception raised at `site` of the handler
Throw(w, site) ==
    LET w1 == [w EXCEPT !.run.error = site,
                        !.run.diarizeFailed = @ \/ site = "diarize",
                        !.run.synthesized = IF site = "synthesize" THEN "failed" ELSE @]
    IN  CASE CatchOf(site) = "diarization" -> Diarized(w1, DefaultDiarization)
          [] CatchOf(site) = "tts" -> TextOnly(w1)
          [] CatchOf(site) = "outer" -> Finish(w1, "error")
          [] OTHER -> [w1 EXCEPT !.run.pc = "thrown"]

(***************************************************************************)
(* Actions: the 'chunk' event and the settling of each awaited call.       *)
(***************************************************************************)
\* audioCapture.ts:156-163: the chunk is stamped with the time of its emission
\* and the listener runs inside emit, up to its first await
NewRun ==
    [IdleRun EXCEPT !.id = Len(runs) + 1, !.timestamp = Len(runs) + 1,
                    !.startContext = CurrentContext]

Deliver == Commit(OnChunk(World(NewRun)))

ChunkEvent ==
    /\ Len(runs) < MaxChunks
    /\ Deliver
    /\ UNCHANGED <<envVars, captureVars>>

OverlapChunkEvent ==
    /\ Len(runs) < OverlapChunks
    /\ Deliver
    /\ UNCHANGED <<envVars, captureVars>>

\* promptText of 'dm-force-response': absent, or a text
PromptTexts == { <<>>, <<8>> }

ForcedRun(prompt) ==
    [IdleRun EXCEPT !.id = Len(runs) + 1, !.kind = "forced", !.prompt = prompt,
                    !.startContext = CurrentContext]

\* index.ts:404-414
ForceResponse ==
    /\ Len(runs) < MaxChunks
    /\ \E prompt \in PromptTexts : Commit(OnForce(World(ForcedRun(prompt))))
    /\ UNCHANGED <<envVars, captureVars>>

BacklogChunkEvent ==
    /\ Len(runs) < BacklogChunks
    /\ Deliver
    /\ UNCHANGED <<envVars, captureVars>>

\* the runs of the handler that have not ended
InFlight == {c \in Chunks : runs[c].pc # "done"}

\* index.ts:91
TranscribeReturn(c) ==
    /\ runs[c].pc = "transcribe"
    /\ ~runs[c].endless
    /\ \/ \E t \in TranscribeResults(c) : Commit(Transcribed(World(runs[c]), t))
       \/ Commit(Throw(World(runs[c]), "transcribe"))
    /\ UNCHANGED <<envVars, captureVars>>

\* index.ts:100-105
DiarizeReturn(c) ==
    /\ runs[c].pc = "diarize"
    /\ ~runs[c].endless
    /\ \/ \E d \in DiarizeResults : Commit(Diarized(World(runs[c]), d))
       \/ Commit(Throw(World(runs[c]), "diarize"))
    /\ UNCHANGED <<envVars, captureVars>>

\* index.ts:135
DetectIntentReturn(c) ==
    /\ runs[c].pc = "detectIntent"
    /\ ~runs[c].endless
    /\ \/ \E i \in IntentResults : Commit(Intended(World(runs[c]), i))
       \/ Commit(Throw(World(runs[c]), "detectIntent"))
    /\ UNCHANGED <<envVars, captureVars>>

\* index.ts:139
SearchKnowledgeReturn(c) ==
    /\ runs[c].pc = "searchKnowledge"
    /\ ~runs[c].endless
    /\ \/ \E k \in KnowledgeResults : Commit(StartGenerate(World(runs[c]), k))
       \/ Commit(Throw(World(runs[c]), "searchKnowledge"))
    /\ UNCHANGED <<envVars, captureVars>>

\* index.ts:143, part_009:185-247: the fetch fails or answers not-ok and the
\* error is rethrown, or data.message arrives
GenerateReturn(c) ==
    /\ runs[c].pc = "generateResponse"
    /\ ~runs[c].endless
    /\ \/ \E m \in LLMMessages : Commit(Generated(World(runs[c]), m))
       \/ Commit(Throw(World(runs[c]), "generateResponse"))
    /\ UNCHANGED <<envVars, captureVars>>

\* index.ts:155
SynthesizeReturn(c) ==
    /\ runs[c].pc = "synthesize"
    /\ ~runs[c].endless
    /\ \/ \E a \in SynthesizeResults : Commit(WithAudio(World(runs[c]), a))
       \/ Commit(Throw(World(runs[c]), "synthesize"))
    /\ UNCHANGED <<envVars, captureVars>>

\* the calls a run awaits
ServiceMethods ==
    { "transcribe", "diarize", "detectIntent", "searchKnowledge", "generateResponse",
      "synthesize" }

\* audioCapture.ts:571-577 and part_009:185-202: the fetch is given no signal and
\* no timeout of its own, and the server never answers.  The fetch of the
\* runtime gives up waiting for the response headers after its default of 300
\* seconds and rejects with TypeError "fetch failed"; the rejection reaches the
\* catch clause that guards the call (audioCapture.ts:582-584 logs and rethrows)
NeverAnswers(c) ==
    /\ runs[c].pc \in ServiceMethods
    /\ ~runs[c].endless
    /\ Commit(Throw([World(runs[c]) EXCEPT !.run.timedOut = runs[c].pc], runs[c].pc))
    /\ UNCHANGED <<envVars, captureVars>>

\* audioCapture.ts:584 and part_009:208: the server answers with its headers
\* and keeps sending a body it never finishes.  response.json() stays pending
\* while bytes arrive, no timeout of the runtime applies, and the run stays at
\* its await
BodyNeverEnds(c) ==
    /\ runs[c].pc \in ServiceMethods
    /\ ~runs[c].endless
    /\ runs' = [runs EXCEPT ![c].endless = TRUE]
    /\ UNCHANGED <<envVars, sent, sentFlags, appended, recentTranscriptBuffer,
                   conversationHistory, captureVars>>

\* the continuations of run c: what can resume the handler
Resumes(c) ==
    \/ TranscribeReturn(c)
    \/ DiarizeReturn(c)
    \/ DetectIntentReturn(c)
    \/ SearchKnowledgeReturn(c)
    \/ GenerateReturn(c)
    \/ SynthesizeReturn(c)

\* index.ts:68-70
WindowClosed ==
    /\ mainWindow
    /\ mainWindow' = FALSE
    /\ UNCHANGED <<isReady, process, startupPromise, serviceVars, contextVars, parseVars, hookVars,
                   runVars, captureVars>>

\* index.ts:23-24: mainWindow = new BrowserWindow(...)
createWindow == mainWindow' = TRUE

\* index.ts:192-196: app.on('activate') creates a window when none is open
Activate ==
    /\ IF ~mainWindow THEN createWindow ELSE UNCHANGED mainWindow
    /\ UNCHANGED <<isReady, process, startupPromise, serviceVars, contextVars, parseVars, hookVars,
                   runVars, captureVars>>

\* index.ts:398-401
ClearTranscriptHistory ==
    /\ recentTranscriptBuffer' = <<>>
    /\ appended' = <<>>
    /\ UNCHANGED <<envVars, runs, sent, sentFlags, conversationHistory, captureVars>>

\* index.ts:378-381
SetSceneMode ==
    /\ \E mode \in SceneModes : currentSceneMode' = mode
    /\ UNCHANGED <<currentSceneDescription, activeNPCs, characterStatsCache>>
    /\ UNCHANGED <<mainWindow, isReady, process, startupPromise, serviceVars, parseVars, hookVars,
                   runVars, captureVars>>

\* index.ts:383-386
SetSceneDescription ==
    /\ \E description \in SceneDescriptions : currentSceneDescription' = description
    /\ UNCHANGED <<currentSceneMode, activeNPCs, characterStatsCache>>
    /\ UNCHANGED <<mainWindow, isReady, process, startupPromise, serviceVars, parseVars, hookVars,
                   runVars, captureVars>>

\* index.ts:388-391
SetActiveNPCs ==
    /\ \E npcs \in NPCLists : activeNPCs' = npcs
    /\ UNCHANGED <<currentSceneMode, currentSceneDescription, characterStatsCache>>
    /\ UNCHANGED <<mainWindow, isReady, process, startupPromise, serviceVars, parseVars, hookVars,
                   runVars, captureVars>>

\* index.ts:393-396
SetCharacterStats ==
    /\ \E stats \in CharacterStats : characterStatsCache' = stats
    /\ UNCHANGED <<currentSceneMode, currentSceneDescription, activeNPCs>>
    /\ UNCHANGED <<mainWindow, isReady, process, startupPromise, serviceVars, parseVars, hookVars,
                   runVars, captureVars>>

\* part_009:290-292, 'llm-generate-response': generateResponse called by the
\* renderer with a context of its own, here with no transcript; the call has
\* returned or thrown, and its one effect on the state is the push of
\* part_009:213-215
LlmGenerateResponse ==
    /\ Len(conversationHistory) < 2 * HistoryCalls
    /\ \E m \in HistoryMessages :
           conversationHistory' = PushHistory(conversationHistory, UserContent(<<>>), m)
    /\ UNCHANGED <<envVars, runs, sent, sentFlags, appended, recentTranscriptBuffer, captureVars>>

\* part_009:293-296 and 253-255, 'llm-clear-history'
LlmClearHistory ==
    /\ conversationHistory' = <<>>
    /\ UNCHANGED <<envVars, runs, sent, sentFlags, appended, recentTranscriptBuffer, captureVars>>

\* part_009:208-247: generateResponse, called by the renderer with no
\* transcript, pushes its message and the answer it received on the history
\* and parses the answer, or throws on it
ParseMessage ==
    /\ decision = NoResponse
    /\ conversationHistory' =
           PushHistory(conversationHistory, UserContent(<<>>), dataMessage)
    /\ decision' = ParseDecision(dataMessage)
    /\ UNCHANGED <<dataMessage, mainWindow, isReady, process, startupPromise, serviceVars,
                   contextVars, hookVars, runs, sent, sentFlags, appended,
                   recentTranscriptBuffer, captureVars>>

\* a start that spawns again when the child process is gone; C29 tells it from
\* start
PythonStartRespawning ==
    /\ IF startupPromise # "none" /\ process
       THEN UNCHANGED <<startupPromise, process, spawns>>
       ELSE startupPromise' = "pending" /\ process' = TRUE /\ spawns' = spawns + 1
    /\ UNCHANGED <<mainWindow, isReady, stopsSeen, contextVars, parseVars, hookVars, runVars, captureVars>>

\* PythonService.start and _start, audioCapture.ts:464-523
PythonStart ==
    /\ IF startupPromise # "none"
       THEN UNCHANGED <<startupPromise, process, spawns>>
       ELSE startupPromise' = "pending" /\ process' = TRUE /\ spawns' = spawns + 1
    /\ UNCHANGED <<mainWindow, isReady, stopsSeen, contextVars, parseVars, hookVars, runVars, captureVars>>

\* waitForReady, audioCapture.ts:531-536: /health answered ok
PythonHealthy ==
    /\ startupPromise = "pending"
    /\ isReady' = TRUE
    /\ startupPromise' = "resolved"
    /\ UNCHANGED <<mainWindow, process, serviceVars, contextVars, parseVars, hookVars, runVars, captureVars>>

\* waitForReady, audioCapture.ts:528-543: no health check answered ok in
\* maxRetries attempts and the startup promise rejects
PythonStartupFailed ==
    /\ startupPromise = "pending"
    /\ startupPromise' = "rejected"
    /\ UNCHANGED <<mainWindow, isReady, process, serviceVars, contextVars, parseVars, hookVars, runVars,
                   captureVars>>

\* PythonService.stop, audioCapture.ts:548-554
PythonStop ==
    /\ IF process
       THEN process' = FALSE /\ isReady' = FALSE
       ELSE UNCHANGED <<process, isReady>>
    /\ UNCHANGED <<mainWindow, startupPromise, serviceVars, contextVars, parseVars, hookVars, runVars,
                   captureVars>>

\* PythonService.stop, audioCapture.ts:548-554, with the call recorded: made
\* before or after the first start()
PythonStopRecorded ==
    /\ IF process
       THEN process' = FALSE /\ isReady' = FALSE
       ELSE UNCHANGED <<process, isReady>>
    /\ stopsSeen' = stopsSeen \cup {IF startupPromise = "none" THEN "beforeStart" ELSE "afterStart"}
    /\ UNCHANGED <<mainWindow, startupPromise, spawns, contextVars, parseVars, hookVars, runVars,
                   captureVars>>

\* the 'close' listener, audioCapture.ts:515-519
PythonClosed ==
    /\ startupPromise # "none"
    /\ isReady' = FALSE
    /\ process' = FALSE
    /\ UNCHANGED <<mainWindow, startupPromise, serviceVars, contextVars, parseVars, hookVars, runVars,
                   captureVars>>

(***************************************************************************)
(* AudioCapture, audioCapture.ts:26-169.                                   *)
(*                                                                         *)
(* A sample is an integer u that stands for the value u / 1024 of the      *)
(* Float32Array.  Such a value is a float32 exactly, its square and the    *)
(* sums of the squares are doubles exactly, so the integer arithmetic      *)
(* below is the arithmetic of the code.  The renderer sends one of three   *)
(* arrays; audioBuffer holds references to them.                           *)
(***************************************************************************)
Voiced(n) == [i \in 1..n |-> IF ((i - 1) \div 10) % 2 = 0 THEN 20 ELSE -20]

Samples(block) ==
    CASE block = "speech"  -> Voiced(1000)
      [] block = "click"   -> Voiced(500)
      [] block = "silence" -> [i \in 1..1000 |-> 0]

Blocks == {"speech", "click", "silence"}

\* audioCapture.ts:138-145
RECURSIVE Concatenate(_)
Concatenate(buffer) ==
    IF buffer = <<>> THEN <<>> ELSE Samples(Head(buffer)) \o Concatenate(Tail(buffer))

Abs(x) == IF x < 0 THEN -x ELSE x

RECURSIVE SumOver(_, _)
SumOver(values, samples) ==
    IF values = {} THEN 0
    ELSE LET v == CHOOSE x \in values : TRUE
         IN  v * v * Cardinality({i \in DOMAIN samples : samples[i] = v})
               + SumOver(values \ {v}, samples)

\* audioCapture.ts:97, the sum of the squares, summed value by value
SumSquares(samples) == SumOver({samples[i] : i \in DOMAIN samples}, samples)

\* audioCapture.ts:86-129, on samples in units of 1 / 1024.  With
\* perT = 1 / T = 100, rmsEnergy > T is perT^2 * sumSquares > 1024^2 * length,
\* here with both sides divided by 16; the per-sample floor T * 0.5 is
\* 2 * 1000 * |u| > T * 1024; the rate bounds 0.02 and 0.5 are multiplied out.
DetectVoiceActivity(samples) ==
    LET n == Len(samples)
        perT == 1000 \div VAD_ENERGY_THRESHOLD
        samplesAboveThreshold ==
            Cardinality({i \in 1..n :
                            2 * 1000 * Abs(samples[i]) > VAD_ENERGY_THRESHOLD * 1024})
        zeroCrossings ==
            Cardinality({i \in 2..n : \/ samples[i - 1] >= 0 /\ samples[i] < 0
                                      \/ samples[i - 1] < 0 /\ samples[i] >= 0})
        hasEnergy ==
            (perT \div 4) * (perT \div 4) * SumSquares(samples)
                > (1024 \div 4) * (1024 \div 4) * n
        hasSufficientSamples == samplesAboveThreshold > VAD_MIN_SPEECH_SAMPLES
        hasReasonableZeroCrossings == 100 * zeroCrossings > 2 * n /\ 2 * zeroCrossings < n
    IN  IF n = 0 THEN FALSE
        ELSE hasEnergy /\ hasSufficientSamples /\ hasReasonableZeroCrossings

\* a processBuffer without the voice-activity gate; C12 tells it from processBuffer
EmitsAnyAudio(buffer) == buffer # <<>>

\* audioCapture.ts:134-164: does processBuffer emit a chunk
EmitsChunk(buffer) == buffer # <<>> /\ DetectVoiceActivity(Concatenate(buffer))

\* audioCapture.ts:40
StartReturnsEarly == isCapturing

\* a stop without its guard; C10 tells it from stop
StopAlways == FALSE

\* audioCapture.ts:58
StopReturnsEarly == ~isCapturing

\* an addAudioData without its guard; C26 tells it from addAudioData
AddNeverReturnsEarly == FALSE

\* audioCapture.ts:79
AddReturnsEarly == ~isCapturing

Logged(op, emitted) == callLog' = Append(callLog, [op |-> op, emitted |-> emitted])

\* processBuffer's emit('chunk', chunk), with the listener of index.ts:77; the
\* caller has assigned isCapturing before the call
ProcessBuffer(op, eventsAfter) ==
    /\ gated' = IF audioBuffer # <<>> THEN Append(gated, audioBuffer) ELSE gated
    /\ IF EmitsChunk(audioBuffer)
       THEN /\ Deliver
            /\ captureEvents' = captureEvents \o <<"chunk">> \o eventsAfter
            /\ chunkFlags' = Append(chunkFlags, isCapturing')
            /\ Logged(op, 1)
       ELSE /\ UNCHANGED <<runVars, chunkFlags>>
            /\ captureEvents' = captureEvents \o eventsAfter
            /\ Logged(op, 0)

\* audioCapture.ts:39-52
Start ==
    /\ Len(callLog) < MaxOps
    /\ IF StartReturnsEarly
       THEN UNCHANGED <<isCapturing, audioBuffer, chunkInterval, timers, captureEvents>>
       ELSE /\ isCapturing' = TRUE
            /\ audioBuffer' = <<>>
            /\ chunkInterval' = Len(callLog) + 1
            /\ timers' = timers \cup {Len(callLog) + 1}
            /\ captureEvents' = Append(captureEvents, "started")
    /\ Logged("start", 0)
    /\ UNCHANGED <<envVars, runVars, chunkFlags, pushed, gated>>

\* a stop that cancels the runs of the handler that are in flight; C21 tells it
\* from stop
StopCancelling ==
    /\ Len(callLog) < MaxOps
    /\ IF StopReturnsEarly
       THEN /\ UNCHANGED <<isCapturing, audioBuffer, chunkInterval, timers, captureEvents>>
            /\ UNCHANGED <<runVars, chunkFlags, gated>>
            /\ Logged("stop", 0)
       ELSE /\ isCapturing' = FALSE
            /\ timers' = timers \ {chunkInterval}
            /\ chunkInterval' = 0
            /\ IF EmitsChunk(audioBuffer)
               THEN ProcessBuffer("stop", <<"stopped">>)
               ELSE /\ runs' = [c \in DOMAIN runs |->
                                  IF runs[c].pc = "done" THEN runs[c]
                                  ELSE [runs[c] EXCEPT !.pc = "done", !.exit = "cancelled"]]
                    /\ UNCHANGED <<sent, sentFlags, appended, recentTranscriptBuffer,
                                   conversationHistory, chunkFlags>>
                    /\ gated' = IF audioBuffer # <<>> THEN Append(gated, audioBuffer) ELSE gated
                    /\ captureEvents' = Append(captureEvents, "stopped")
                    /\ Logged("stop", 0)
            /\ audioBuffer' = <<>>
    /\ UNCHANGED <<envVars, pushed>>

\* a stop that drops the buffered audio instead of flushing it; C25 tells it
\* from stop
StopDiscarding ==
    /\ Len(callLog) < MaxOps
    /\ IF StopReturnsEarly
       THEN UNCHANGED <<isCapturing, audioBuffer, chunkInterval, timers, captureEvents>>
       ELSE /\ isCapturing' = FALSE
            /\ timers' = timers \ {chunkInterval}
            /\ chunkInterval' = 0
            /\ audioBuffer' = <<>>
            /\ captureEvents' = Append(captureEvents, "stopped")
    /\ Logged("stop", 0)
    /\ UNCHANGED <<envVars, runVars, chunkFlags, pushed, gated>>

\* audioCapture.ts:57-73
Stop ==
    /\ Len(callLog) < MaxOps
    /\ IF StopReturnsEarly
       THEN /\ UNCHANGED <<isCapturing, audioBuffer, chunkInterval, timers, captureEvents>>
            /\ UNCHANGED <<runVars, chunkFlags, gated>>
            /\ Logged("stop", 0)
       ELSE /\ isCapturing' = FALSE
            /\ timers' = timers \ {chunkInterval}
            /\ chunkInterval' = 0
            /\ ProcessBuffer("stop", <<"stopped">>)
            /\ audioBuffer' = <<>>
    /\ UNCHANGED <<envVars, pushed>>

\* audioCapture.ts:78-81
AddAudioData(block) ==
    /\ Len(callLog) < MaxOps
    /\ audioBuffer' = IF AddReturnsEarly THEN audioBuffer ELSE Append(audioBuffer, block)
    /\ pushed' = IF AddReturnsEarly THEN pushed ELSE Append(pushed, block)
    /\ Logged("add", 0)
    /\ UNCHANGED <<isCapturing, chunkInterval, timers, captureEvents, chunkFlags, gated,
                   envVars, runVars>>

\* audioCapture.ts:46-48, the callback of an interval that is set
Tick(timer) ==
    /\ Len(callLog) < MaxOps
    /\ UNCHANGED <<isCapturing, chunkInterval, timers, envVars, pushed>>
    /\ ProcessBuffer("tick", <<>>)
    /\ audioBuffer' = <<>>

(***************************************************************************)
(* The renderer's capture hook, useAudioCapture.ts:125-252.  A call of     *)
(* startCapture is named by its number; the stream, the context and the    *)
(* processor it opens carry that number.                                   *)
(***************************************************************************)
hookRest ==
    <<mainWindow, isReady, process, startupPromise, serviceVars, contextVars, parseVars,
      runVars, captureVars>>

\* useAudioCapture.ts:125-133: the guard, then the await of getUserMedia
StartCapture ==
    /\ hookCalls < MaxHookCalls
    /\ hookCalls' = hookCalls + 1
    /\ pendingStarts' = IF isCapturingRef THEN pendingStarts
                                          ELSE pendingStarts \cup {hookCalls + 1}
    /\ UNCHANGED <<isCapturingRef, mediaStreamRef, audioContextRef, processorRef, openStreams,
                   openContexts, openProcessors, pendingStops>>
    /\ UNCHANGED hookRest

\* useAudioCapture.ts:131-182: getUserMedia resolved with a stream
MicrophoneGranted(call) ==
    /\ call \in pendingStarts
    /\ pendingStarts' = pendingStarts \ {call}
    /\ openStreams' = openStreams \cup {call}
    /\ mediaStreamRef' = call
    /\ openContexts' = openContexts \cup {call}
    /\ audioContextRef' = call
    /\ openProcessors' = openProcessors \cup {call}
    /\ processorRef' = call
    /\ isCapturingRef' = TRUE
    /\ UNCHANGED <<pendingStops, hookCalls>>
    /\ UNCHANGED hookRest

\* useAudioCapture.ts:184-210: getUserMedia rejected
MicrophoneDenied(call) ==
    /\ call \in pendingStarts
    /\ pendingStarts' = pendingStarts \ {call}
    /\ UNCHANGED <<isCapturingRef, mediaStreamRef, audioContextRef, processorRef, openStreams,
                   openContexts, openProcessors, pendingStops, hookCalls>>
    /\ UNCHANGED hookRest

\* useAudioCapture.ts:214-238: the guard, the disconnects, the stop of the
\* tracks, then the await of audioContext.close()
StopCapture ==
    /\ hookCalls < MaxHookCalls
    /\ hookCalls' = hookCalls + 1
    /\ IF ~isCapturingRef
       THEN UNCHANGED <<processorRef, openProcessors, mediaStreamRef, openStreams, pendingStops>>
       ELSE /\ openProcessors' = openProcessors \ {processorRef}
            /\ processorRef' = 0
            /\ openStreams' = openStreams \ {mediaStreamRef}
            /\ mediaStreamRef' = 0
            /\ pendingStops' = pendingStops \cup {audioContextRef}
    /\ UNCHANGED <<isCapturingRef, audioContextRef, openContexts, pendingStarts>>
    /\ UNCHANGED hookRest

\* useAudioCapture.ts:236-251: close() resolved
ContextClosed(context) ==
    /\ context \in pendingStops
    /\ pendingStops' = pendingStops \ {context}
    /\ openContexts' = openContexts \ {context}
    /\ audioContextRef' = 0
    /\ isCapturingRef' = FALSE
    /\ UNCHANGED <<mediaStreamRef, processorRef, openStreams, openProcessors, pendingStarts,
                   hookCalls>>
    /\ UNCHANGED hookRest

(***************************************************************************)
(* The buffers the exploration starts from hold the utterances of earlier  *)
(* chunks, written with characters below the blank, oldest first.          *)
(***************************************************************************)
Earlier(n) == [j \in 1..n |-> [speaker |-> "alice", text |-> <<j - n - 1>>]]

InitProgram ==
    /\ mainWindow = TRUE
    /\ \E n \in PrefillLens : recentTranscriptBuffer = Earlier(n) /\ appended = Earlier(n)
    /\ isReady = FALSE
    /\ process = FALSE
    /\ startupPromise = "none"
    /\ spawns = 0
    /\ stopsSeen = {}
    /\ isCapturingRef = FALSE
    /\ mediaStreamRef = 0
    /\ audioContextRef = 0
    /\ processorRef = 0
    /\ openStreams = {}
    /\ openContexts = {}
    /\ openProcessors = {}
    /\ pendingStarts = {}
    /\ pendingStops = {}
    /\ hookCalls = 0
    /\ conversationHistory = <<>>
    /\ currentSceneMode = DefaultContext.sceneMode
    /\ currentSceneDescription = DefaultContext.sceneDescription
    /\ activeNPCs = DefaultContext.activeNPCs
    /\ characterStatsCache = DefaultContext.characterStats
    /\ runs = <<>>
    /\ sent = <<>>
    /\ sentFlags = <<>>
    /\ isCapturing = FALSE
    /\ audioBuffer = <<>>
    /\ chunkInterval = 0
    /\ timers = {}
    /\ captureEvents = <<>>
    /\ callLog = <<>>
    /\ chunkFlags = <<>>
    /\ pushed = <<>>
    /\ gated = <<>>

Init ==
    /\ InitProgram
    /\ dataMessage = NoMessage
    /\ decision = NoResponse

\* an answer of the language model, not parsed yet
InitParse ==
    /\ InitProgram
    /\ dataMessage \in Messages
    /\ decision = NoResponse

Returns ==
    \/ \E c \in Chunks : TranscribeReturn(c)
    \/ \E c \in Chunks : DiarizeReturn(c)
    \/ \E c \in Chunks : DetectIntentReturn(c)
    \/ \E c \in Chunks : SearchKnowledgeReturn(c)
    \/ \E c \in Chunks : GenerateReturn(c)
    \/ \E c \in Chunks : SynthesizeReturn(c)

Environment ==
    \/ WindowClosed
    \/ Activate
    \/ ClearTranscriptHistory
    \/ PythonStart
    \/ PythonHealthy
    \/ PythonStop
    \/ PythonClosed

Next == ChunkEvent \/ Returns \/ Environment

Spec == Init /\ [][Next]_vars

NextOverlap == OverlapChunkEvent \/ Returns \/ Environment

SpecOverlap == Init /\ [][NextOverlap]_vars

Setters ==
    \/ SetSceneMode
    \/ SetSceneDescription
    \/ SetActiveNPCs
    \/ SetCharacterStats

NextContext == ChunkEvent \/ Returns \/ Setters \/ PythonStart \/ PythonHealthy

SpecContext == Init /\ [][NextContext]_vars

NextMode == ChunkEvent \/ Returns \/ SetSceneMode \/ PythonStart \/ PythonHealthy

SpecMode == Init /\ [][NextMode]_vars

NextHang ==
    \/ ChunkEvent
    \/ Returns
    \/ \E c \in Chunks : NeverAnswers(c)
    \/ \E c \in Chunks : BodyNeverEnds(c)
    \/ PythonStart
    \/ PythonHealthy

SpecHang == Init /\ [][NextHang]_vars

NextBacklog ==
    \/ BacklogChunkEvent
    \/ \E c \in Chunks : NeverAnswers(c)
    \/ PythonStart
    \/ PythonHealthy

SpecBacklog == Init /\ [][NextBacklog]_vars

NextHistory == LlmGenerateResponse \/ LlmClearHistory

SpecHistory == Init /\ [][NextHistory]_vars

\* the decision engine shared by two runs of the handler and cleared by the
\* renderer
NextEngine ==
    \/ OverlapChunkEvent
    \/ Returns
    \/ LlmClearHistory
    \/ PythonStart
    \/ PythonHealthy

SpecEngine == Init /\ [][NextEngine]_vars

\* the life of the PythonService instance, with a chunk that uses it
NextService ==
    \/ PythonStart
    \/ PythonHealthy
    \/ PythonStartupFailed
    \/ PythonStopRecorded
    \/ PythonClosed
    \/ ChunkEvent
    \/ Returns

SpecService == Init /\ [][NextService]_vars

NextHook ==
    \/ StartCapture
    \/ \E call \in pendingStarts : MicrophoneGranted(call)
    \/ \E call \in pendingStarts : MicrophoneDenied(call)
    \/ StopCapture
    \/ \E context \in pendingStops : ContextClosed(context)

SpecHook == Init /\ [][NextHook]_vars

NextParse == ParseMessage

SpecParse == InitParse /\ [][NextParse]_vars

NextForce == ForceResponse \/ ChunkEvent \/ Returns \/ Environment

SpecForce == Init /\ [][NextForce]_vars

NextCapture ==
    \/ Start
    \/ Stop
    \/ \E block \in Blocks : AddAudioData(block)
    \/ \E timer \in timers : Tick(timer)
    \/ PythonStart
    \/ PythonHealthy

SpecCapture == Init /\ [][NextCapture]_vars

\* a capture session with its pipeline: AudioCapture emits the chunks and the
\* runs of the handler go on between the calls
NextSession ==
    \/ Start
    \/ Stop
    \/ \E block \in Blocks : AddAudioData(block)
    \/ \E timer \in timers : Tick(timer)
    \/ Returns
    \/ PythonStart
    \/ PythonHealthy

SpecSession == Init /\ [][NextSession]_vars

(***************************************************************************)
(* The vocabulary of the properties.                                       *)
(***************************************************************************)
\* the positions in a log of the events of one type that chunk c's run sent
EventsOf(log, type, c) == {i \in DOMAIN log : log[i].type = type /\ log[i].chunk = c}

\* the run invoked a service method
Invoked(run, method) == \E i \in DOMAIN run.calls : run.calls[i] = method

\* the chunk an utterance was heard in
ChunkOf(entry) == entry.text[Len(entry.text)]

(***************************************************************************)
(* C1.  Segments are published in the order their chunks were captured:    *)
(* of two transcript-update events, the one sent first carries the earlier *)
(* chunk timestamp.  Two overlapping runs of the handler break this: the   *)
(* run of the later chunk can pass its awaits first.                       *)
(***************************************************************************)
C1_SegmentsInCaptureOrder ==
    \A i, j \in DOMAIN sent :
        (/\ i < j
         /\ sent[i].type = "transcript-update"
         /\ sent[j].type = "transcript-update") => sent[i].timestamp < sent[j].timestamp

(***************************************************************************)
(* C2.  Context entries are appended in the order their chunks were        *)
(* captured: of two entries pushed on recentTranscriptBuffer, the one      *)
(* pushed first is of the earlier chunk.  Two overlapping runs break this. *)
(***************************************************************************)
C2_ContextInCaptureOrder ==
    \A i, j \in DOMAIN appended :
        i < j => ChunkOf(appended[i]) < ChunkOf(appended[j])

(***************************************************************************)
(* C3.  recentTranscriptBuffer never holds more than                       *)
(* MAX_TRANSCRIPT_HISTORY entries, and after k appends it holds exactly    *)
(* the last min(k, MAX_TRANSCRIPT_HISTORY) entries appended, oldest first. *)
(***************************************************************************)
C3_LastAppended ==
    LET k == Len(appended)
        n == IF k < MAX_TRANSCRIPT_HISTORY THEN k ELSE MAX_TRANSCRIPT_HISTORY
    IN  /\ Len(recentTranscriptBuffer) <= MAX_TRANSCRIPT_HISTORY
        /\ Len(recentTranscriptBuffer) = n
        /\ \A i \in 1..n : recentTranscriptBuffer[i] = appended[k - n + i]

\* an append on a full buffer evicted the oldest entry
C3_Evicted ==
    /\ Len(appended) > MAX_TRANSCRIPT_HISTORY
    /\ Len(recentTranscriptBuffer) = MAX_TRANSCRIPT_HISTORY
    /\ \E c \in Chunks : ChunkOf(Last(recentTranscriptBuffer)) = c

(***************************************************************************)
(* C4.  The handler never throws: whatever fails during a run (a service   *)
(* call, or a send to a window closed meanwhile) the promise of the        *)
(* handler does not reject.                                                *)
(***************************************************************************)
C4_NeverThrows == \A c \in Chunks : runs[c].pc # "thrown"

\* synthesis failed, the window was closed meanwhile, the send of the
\* text-only response inside catch (ttsError) threw, and the run ended
C4_FailureCaught ==
    \E c \in Chunks :
        /\ runs[c].pc = "done"
        /\ runs[c].synthesized = "failed"
        /\ runs[c].error = "sendText"

(***************************************************************************)
(* C5.  A chunk that arrives while the speech service is not healthy (not  *)
(* ready, or its process gone) is skipped: the run ends at once having     *)
(* invoked no service method, sends nothing, and leaves                    *)
(* recentTranscriptBuffer and conversationHistory as they were; a run that *)
(* ended never acts again.                                                 *)
(***************************************************************************)
C5_SkippedWhileDown ==
    [][ /\ (Len(runs') = Len(runs) + 1 /\ ~(isReady /\ process)) =>
            /\ runs'[Len(runs')].pc = "done"
            /\ runs'[Len(runs')].calls = <<>>
            /\ UNCHANGED <<sent, recentTranscriptBuffer, conversationHistory>>
        /\ \A c \in Chunks : runs[c].pc = "done" =>
            /\ runs'[c] = runs[c]
            /\ \A i \in DOMAIN sent' : sent'[i].chunk = c => i \in DOMAIN sent
      ]_vars

\* a chunk arrived while the service was ready but its process was gone
C5_Skipped ==
    \E c \in Chunks :
        /\ runs[c].exit = "notrunning"
        /\ isReady /\ ~process

\* diarization gave no speaker: the call rejected, or the answer was null
DiarizationFailed(run) == run.diarizeFailed \/ run.diarization = NullDiarization

(***************************************************************************)
(* C6.  If diarization fails for a run whose transcription was not blank,  *)
(* the run is not aborted.  Diarization fails when the call rejects and    *)
(* when the service answers without a diarization.  In the step in which   *)
(* that happens the entry {speaker "unknown", text} is pushed on           *)
(* recentTranscriptBuffer, and if the window exists the step sends exactly *)
(* one event, the transcript-update of the run with speaker "unknown" and  *)
(* confidence 0, and invokes intent detection.  The code breaks this: an   *)
(* answer of null does not reach the catch clause, reading its speaker     *)
(* throws, and the run ends without entry, segment or intent detection.    *)
(***************************************************************************)
C6_FallbackContinues ==
    [][ \A c \in Chunks :
          (runs[c].pc = "diarize" /\ runs'[c].pc # "diarize" /\ DiarizationFailed(runs'[c])) =>
            /\ Trim(runs'[c].text) # <<>>
            /\ recentTranscriptBuffer' # <<>>
            /\ Last(recentTranscriptBuffer') = [speaker |-> "unknown", text |-> runs'[c].text]
            /\ mainWindow =>
                /\ Len(sent') = Len(sent) + 1
                /\ SubSeq(sent', 1, Len(sent)) = sent
                /\ Last(sent').type = "transcript-update"
                /\ Last(sent').chunk = c
                /\ Last(sent').text = runs'[c].text
                /\ Last(sent').speakerId = "unknown"
                /\ Last(sent').confidence = 0
                /\ Last(sent').timestamp = runs[c].timestamp
                /\ Last(runs'[c].calls) = "detectIntent"
      ]_vars

(***************************************************************************)
(* C7.  A dm-response is sent for a chunk only if intent detection         *)
(* answered should_respond = true and the decision is "respond" with a     *)
(* text that is not empty; a run whose intent is false invokes no          *)
(* knowledge search, generation or synthesis, a run whose decision does    *)
(* not speak invokes no synthesis, and both send no dm-response; a run     *)
(* sends at most one dm-response.                                          *)
(***************************************************************************)
C7_ResponseOnlyOnSpeak ==
    \A c \in Chunks :
        LET run == runs[c]
            responses == EventsOf(sent, "dm-response", c)
            speaks == run.response.action = "respond" /\ run.response.text # <<>>
        IN  /\ responses # {} => run.intent = "yes" /\ speaks
            /\ run.intent = "no" =>
                /\ run.pc = "done"
                /\ ~Invoked(run, "searchKnowledge")
                /\ ~Invoked(run, "generateResponse")
                /\ ~Invoked(run, "synthesize")
            /\ (run.response.action # "none" /\ ~speaks) =>
                /\ run.pc = "done"
                /\ ~Invoked(run, "synthesize")
            /\ Cardinality(responses) <= 1

\* one run answered, after intent detection said yes
C7_Responded ==
    \E c \in Chunks :
        /\ runs[c].intent = "yes"
        /\ runs[c].pc = "done"
        /\ EventsOf(sent, "dm-response", c) # {}

C9_OneSegmentWhileWindowOpen ==
    [][ \A c \in Chunks :
          LET before == EventsOf(sent, "transcript-update", c)
              after == EventsOf(sent', "transcript-update", c)
              awaiting == runs[c].pc \in {"transcribe", "diarize"}
              passed == awaiting /\ runs'[c].pc \notin {"transcribe", "diarize"}
          IN  /\ awaiting => before = {}
              /\ (passed /\ Trim(runs'[c].text) # <<>> /\ mainWindow) =>
                    /\ Cardinality(after) = 1
                    /\ \A i \in after : sent'[i].text = runs'[c].text
              /\ ~awaiting => after = before
      ]_vars

(***************************************************************************)
(* C10.  start and stop of AudioCapture are idempotent: a stop that        *)
(* follows a stop changes nothing and emits nothing, so the two together   *)
(* emit at most one chunk; a start while capturing changes nothing: the    *)
(* buffered audio and the interval stay.                                   *)
(***************************************************************************)
C10_StartStopIdempotent ==
    [][ Len(callLog') = Len(callLog) + 1 =>
          LET n == Len(callLog)
              call == callLog'[n + 1]
              nothing == UNCHANGED <<isCapturing, audioBuffer, chunkInterval, timers,
                                     captureEvents, runVars>>
          IN  /\ (call.op = "stop" /\ n > 0 /\ callLog[n].op = "stop") =>
                    /\ nothing
                    /\ call.emitted = 0
                    /\ callLog[n].emitted + call.emitted <= 1
              /\ (call.op = "start" /\ isCapturing) =>
                    /\ nothing
                    /\ call.emitted = 0
      ]_vars

\* audio was buffered, start was called again, then stop twice: the first stop
\* flushed a chunk
C10_StoppedTwice ==
    /\ Len(callLog) = MaxOps
    /\ callLog[1].op = "start"
    /\ callLog[2].op = "add"
    /\ callLog[3].op = "start"
    /\ callLog[4] = [op |-> "stop", emitted |-> 1]
    /\ callLog[5].op = "stop"

(***************************************************************************)
(* C11.  No chunk is emitted while capture is stopped: this.isCapturing is *)
(* true at every emit('chunk').  The flush of stop breaks this: stop       *)
(* clears the flag before it calls processBuffer.                          *)
(***************************************************************************)
C11_EmittedWhileFlagSet == \A i \in DOMAIN chunkFlags : chunkFlags[i]

(***************************************************************************)
(* C12.  A timer callback or a stop emits a chunk only if the buffer is    *)
(* not empty and detectVoiceActivity accepts the concatenated samples, and *)
(* then it emits one chunk, which starts one run of the handler.  When the *)
(* buffer is empty or the gate rejects, the buffer is cleared all the      *)
(* same, no chunk is emitted, no run starts and no service method is       *)
(* invoked.                                                                *)
(***************************************************************************)
C12_GateDecidesEmission ==
    [][ (Len(callLog') = Len(callLog) + 1 /\ Last(callLog').op \in {"tick", "stop"}) =>
          LET accepted == /\ audioBuffer # <<>>
                          /\ DetectVoiceActivity(Concatenate(audioBuffer))
              emitted == Last(callLog').emitted
          IN  /\ audioBuffer' = <<>>
              /\ emitted = IF accepted THEN 1 ELSE 0
              /\ Len(chunkFlags') = Len(chunkFlags) + emitted
              /\ Len(runs') = Len(runs) + emitted
              /\ \A c \in Chunks : runs'[c] = runs[c]
              /\ ~accepted => UNCHANGED <<runs, sent, recentTranscriptBuffer, conversationHistory>>
      ]_vars

\* with the speech service healthy, a window of rejected audio went by without
\* a chunk, and the next window, of speech, started a run that called transcribe
C12_RejectedThenAccepted ==
    /\ isReady /\ process
    /\ Len(callLog) = MaxOps
    /\ callLog[1].op = "start"
    /\ callLog[2].op = "add"
    /\ callLog[3] = [op |-> "tick", emitted |-> 0]
    /\ callLog[4].op = "add"
    /\ callLog[5] = [op |-> "tick", emitted |-> 1]
    /\ audioBuffer = <<>>
    /\ Len(runs) = 1
    /\ runs[1].calls = <<"transcribe">>

(***************************************************************************)
(* C13, as stated.  A forced response during which nothing failed and to   *)
(* which the language model answered has, once its run ended, sent exactly *)
(* one dm-response.  It fails when the model answers with wait_ignore or   *)
(* with a tts_respond of empty text: the handler sends nothing.            *)
(***************************************************************************)
C13_AnsweredIsOneResponse ==
    \A c \in Chunks :
        (/\ runs[c].kind = "forced"
         /\ runs[c].pc = "done"
         /\ runs[c].error = "none"
         /\ runs[c].response.action # "none") =>
            /\ Cardinality(EventsOf(sent, "dm-response", c)) = 1
            /\ ~Invoked(runs[c], "detectIntent")

(***************************************************************************)
(* C13.  A forced response never invokes the intent classifier (nor        *)
(* transcription or diarization): it invokes searchKnowledge,              *)
(* generateResponse and synthesize, in this order.  It sends at most one   *)
(* dm-response, and only if the decision is "respond" with a text that is  *)
(* not empty; if so and nothing failed during the run, it has sent exactly *)
(* one once the run ended.                                                 *)
(***************************************************************************)
C13_ForcedBypassesIntent ==
    \A c \in Chunks : runs[c].kind = "forced" =>
        LET run == runs[c]
            responses == EventsOf(sent, "dm-response", c)
            steps == <<"searchKnowledge", "generateResponse", "synthesize">>
            speaks == run.response.action = "respond" /\ run.response.text # <<>>
        IN  /\ Len(run.calls) <= Len(steps)
            /\ \A i \in DOMAIN run.calls : run.calls[i] = steps[i]
            /\ Cardinality(responses) <= 1
            /\ responses # {} => speaks
            /\ (run.pc = "done" /\ run.error = "none" /\ speaks) =>
                   /\ Cardinality(responses) = 1
                   /\ \A i \in responses : sent[i].text = run.response.text
                   /\ run.calls = steps

\* a forced response with a prompt ended with its dm-response out, nothing
\* having failed
C13_ForcedResponded ==
    \E c \in Chunks :
        /\ runs[c].kind = "forced"
        /\ runs[c].prompt # <<>>
        /\ runs[c].pc = "done"
        /\ runs[c].error = "none"
        /\ \E i \in EventsOf(sent, "dm-response", c) : sent[i].audioData = "wav"

(***************************************************************************)
(* C14.  The scene context a run gives to generateResponse is the one in   *)
(* force when the run started: a 'dm-set-*' handler that runs while the    *)
(* run is suspended at an await does not change it.  The code breaks this: *)
(* the run reads the module variables only when it builds the context,     *)
(* after its awaits.                                                       *)
(***************************************************************************)
C14_ContextOfRunStart ==
    \A c \in Chunks :
        Invoked(runs[c], "generateResponse") => runs[c].context = runs[c].startContext

(***************************************************************************)
(* C15.  Every run reaches its end even if a service call never returns:   *)
(* a run that has not ended can always be resumed, by the answer, the      *)
(* failure or the timeout of the call it awaits.  The code breaks this: no *)
(* call is given a timeout.  The fetch of the runtime gives up on a server *)
(* that sends nothing, but a run that awaits a call whose body the server  *)
(* never finishes stays at its await for ever.                             *)
(***************************************************************************)
C15_EveryRunCanEnd ==
    \A c \in Chunks : runs[c].pc # "done" => ENABLED Resumes(c)

(***************************************************************************)
(* C16.  At most QUEUE_CAP chunks are pending or in flight in the handler. *)
(* The code breaks this: there is no queue and no cap, every 'chunk' event *)
(* starts a run at once, whatever the number of runs that have not ended.  *)
(***************************************************************************)
C16_BacklogCapped == Cardinality(InFlight) <= QUEUE_CAP

(***************************************************************************)
(* C17.  A failure of searchKnowledge does not end the run: a run whose    *)
(* knowledge search failed has invoked generateResponse all the same.  The *)
(* code breaks this: the call is guarded by the outer try only, and its    *)
(* failure ends the run.                                                   *)
(***************************************************************************)
C17_KnowledgeFailureDegrades ==
    \A c \in Chunks :
        (runs[c].kind = "chunk" /\ runs[c].error = "searchKnowledge") =>
            Invoked(runs[c], "generateResponse")

(***************************************************************************)
(* C18.  conversationHistory holds at most HISTORY_LIMIT pairs of a        *)
(* request and its answer.  The code breaks this: every call that returns  *)
(* pushes a pair and nothing but clearHistory ever removes one; the bound  *)
(* applies to what is sent only.                                           *)
(***************************************************************************)
C18_HistoryBounded == Len(conversationHistory) <= 2 * HISTORY_LIMIT

(***************************************************************************)
(* C19.  generateResponse maps every answer to one of two actions and      *)
(* never fails on it.  If the first tool call is tts_respond the action is *)
(* "respond" with the text and the voice of the call; if it is wait_ignore *)
(* the action is "wait"; with no tool call, or a first call of another     *)
(* name, a content that is not blank gives "respond" with the trimmed      *)
(* content, and anything else gives "wait".  The code breaks this: on an   *)
(* answer without message, on a first tool call without function and on a  *)
(* tts_respond call without arguments it throws a TypeError.               *)
(***************************************************************************)
C19_DecisionOfAnswer ==
    decision # NoResponse =>
        LET calls == dataMessage.tool_calls
            first == IF calls # <<>> THEN calls[1].name ELSE "none"
            freeText == Trim(dataMessage.content)
            wait == [action |-> "wait", text |-> <<>>, npcVoice |-> NoVoice]
        IN  /\ decision.action \in {"respond", "wait"}
            /\ first = "tts_respond" =>
                   decision = [ action |-> "respond", text |-> calls[1].text,
                                npcVoice |-> calls[1].npc_voice ]
            /\ first = "wait_ignore" => decision = wait
            /\ (first \notin {"tts_respond", "wait_ignore"} /\ freeText # <<>>) =>
                   decision = [action |-> "respond", text |-> freeText, npcVoice |-> NoVoice]
            /\ (first \notin {"tts_respond", "wait_ignore"} /\ freeText = <<>>) =>
                   decision = wait

\* the steps at which C20 places the failure
IsolatedSites == { "detectIntent", "generateResponse" }

(***************************************************************************)
(* C20.  A failure of intent detection or of the decision engine stays in  *)
(* the run of its chunk.  That run ends without a dm-response and without  *)
(* calling synthesize, and it calls no service twice.  The turn in which   *)
(* the awaited call fails changes nothing but that run: the events sent,   *)
(* the transcript buffer with the entry of the chunk, the history of the   *)
(* engine, the service state and every other run are as before, so that    *)
(* the next chunk is processed as if this one had not failed.  A run that  *)
(* has ended is never resumed.  The code breaks this: a generateResponse   *)
(* that throws on the answer it received has pushed on conversationHistory *)
(* before, and the request of the next chunk carries what it pushed.       *)
(***************************************************************************)
C20_FailureIsolated ==
    /\ [](\A c \in 1..Len(runs) :
            runs[c].error \in IsolatedSites =>
                /\ runs[c].pc = "done"
                /\ EventsOf(sent, "dm-response", c) = {}
                /\ ~Invoked(runs[c], "synthesize")
                /\ \A i, j \in DOMAIN runs[c].calls :
                       runs[c].calls[i] = runs[c].calls[j] => i = j)
    /\ [][\A c \in 1..Len(runs) :
            (runs[c].pc \in IsolatedSites /\ runs'[c].error \in IsolatedSites) =>
                /\ sent' = sent
                /\ recentTranscriptBuffer' = recentTranscriptBuffer
                /\ conversationHistory' = conversationHistory
                /\ envVars' = envVars
                /\ \A d \in 1..Len(runs) : d # c => runs'[d] = runs[d]]_vars
    /\ [][\A c \in 1..Len(runs) : runs[c].pc = "done" => runs'[c] = runs[c]]_vars

(***************************************************************************)
(* C21.  stop() flushes and leaves the runs in flight alone.  The call     *)
(* changes no run that existed before it, nothing these runs published and *)
(* nothing they will read; and whether or not capture is on, a run that is *)
(* suspended at a call is resumed when the call settles.                   *)
(***************************************************************************)
C21_StopLeavesRunsInFlight ==
    /\ [][(Len(callLog') > Len(callLog) /\ Last(callLog').op = "stop") =>
            /\ \A c \in 1..Len(runs) : runs'[c] = runs[c]
            /\ sent' = sent
            /\ recentTranscriptBuffer' = recentTranscriptBuffer
            /\ conversationHistory' = conversationHistory]_vars
    /\ [](\A c \in 1..Len(runs) : runs[c].pc \in ServiceMethods => ENABLED Resumes(c))

\* a chunk emitted on a tick had its segment and its response published after
\* stop() had returned
C21_PublishedAfterStop ==
    /\ ~isCapturing
    /\ Len(chunkFlags) >= 1
    /\ chunkFlags[1]
    /\ \E i \in EventsOf(sent, "transcript-update", 1) : ~sentFlags[i]
    /\ \E i \in EventsOf(sent, "dm-response", 1) : ~sentFlags[i]

(***************************************************************************)
(* C22.  In the step in which a run whose transcription was not blank      *)
(* passes diarization, answered or failed, while the window exists, it     *)
(* sends the low-confidence advisory, with the text and the candidate      *)
(* speaker, exactly when the confidence is below 0.6 and the speaker is    *)
(* not "unknown"; with or without the advisory the same step sends the     *)
(* transcript-update of the run after it and invokes intent detection.  No *)
(* other step sends an advisory.  The code breaks this: when /diarize      *)
(* answers null there is no advisory, and the run ends without segment and *)
(* without intent detection.                                               *)
(***************************************************************************)
C22_AdvisoryWhileWindowOpen ==
    [][ \A c \in Chunks :
          LET before == EventsOf(sent, "low-confidence", c)
              after == EventsOf(sent', "low-confidence", c)
              segment == EventsOf(sent', "transcript-update", c)
              passed == runs[c].pc = "diarize" /\ runs'[c].pc # "diarize"
              d == runs'[c].diarization
              doubtful == d.confidence < LOW_CONFIDENCE_PCT /\ d.speaker_id # "unknown"
          IN  /\ (passed /\ mainWindow) =>
                    /\ before = {}
                    /\ Cardinality(after) = (IF doubtful THEN 1 ELSE 0)
                    /\ \A i \in after :
                           /\ sent'[i].text = runs'[c].text
                           /\ sent'[i].speakerId = d.speaker_id
                           /\ sent'[i].confidence = d.confidence
                           /\ \A j \in segment : i < j
                    /\ Cardinality(segment) = 1
                    /\ Last(runs'[c].calls) = "detectIntent"
              /\ ~passed => after = before
      ]_vars

(***************************************************************************)
(* C23.  The request generateResponse sends carries the temperature and    *)
(* the mode description of the scene mode of the context it was given:     *)
(* 0.7 and the combat description in combat mode, 0.9 and the exploration  *)
(* description in exploration mode, 0.8 and the roleplay description in    *)
(* roleplay mode, so combat < roleplay < exploration.                      *)
(***************************************************************************)
C23_RequestOfSceneMode ==
    \A c \in Chunks : Invoked(runs[c], "generateResponse") =>
        LET mode == runs[c].context.sceneMode
            request == runs[c].request
        IN  /\ mode = "combat" =>
                /\ request.temperature = 7
                /\ request.mode = "Combat mode - Be tactical, concise, and action-focused."
            /\ mode = "exploration" =>
                /\ request.temperature = 9
                /\ request.mode = "Exploration mode - Be descriptive and atmospheric."
            /\ mode = "rp" =>
                /\ request.temperature = 8
                /\ request.mode = "Roleplay mode - Be character-driven and intimate."
            /\ mode \in {"combat", "exploration", "rp"}

\* the scene was set to combat, and a response was generated with the combat
\* temperature and published
C23_CombatResponse ==
    \E c \in Chunks :
        /\ runs[c].context.sceneMode = "combat"
        /\ runs[c].request.temperature = 7
        /\ EventsOf(sent, "dm-response", c) # {}

(***************************************************************************)
(* C24.  When transcription answers with an empty or blank text, or fails, *)
(* the run ends in that step: transcribe is the only call it ever made,    *)
(* and the step sends nothing and leaves recentTranscriptBuffer and the    *)
(* engine's history as they were.  Such a run has published nothing.       *)
(***************************************************************************)
C24_BlankTranscriptionStops ==
    /\ [][ \A c \in Chunks :
             (runs[c].pc = "transcribe" /\ runs'[c].pc # "transcribe"
                /\ Trim(runs'[c].text) = <<>>) =>
                 /\ runs'[c].pc = "done"
                 /\ runs'[c].exit \in {"empty", "error"}
                 /\ runs'[c].calls = <<"transcribe">>
                 /\ sent' = sent
                 /\ recentTranscriptBuffer' = recentTranscriptBuffer
                 /\ appended' = appended
                 /\ conversationHistory' = conversationHistory
         ]_vars
    /\ [](\A c \in Chunks :
             (runs[c].exit = "empty" \/ runs[c].error = "transcribe") =>
                 /\ runs[c].pc = "done"
                 /\ runs[c].calls = <<"transcribe">>
                 /\ \A i \in DOMAIN sent : sent[i].chunk # c)

\* the run ended on a blank or on a failed transcription: nothing was sent and
\* the buffer is the one the session started with
C24_StoppedAtTranscription ==
    /\ \E c \in Chunks : runs[c].exit = "empty" \/ runs[c].error = "transcribe"
    /\ \A c \in Chunks : runs[c].pc = "done"
    /\ sent = <<>>
    /\ recentTranscriptBuffer = appended
    /\ \A i \in DOMAIN recentTranscriptBuffer : ChunkOf(recentTranscriptBuffer[i]) < 0

\* the arrays of a sequence of buffers, in order
RECURSIVE Flatten(_)
Flatten(buffers) == IF buffers = <<>> THEN <<>> ELSE Head(buffers) \o Flatten(Tail(buffers))

(***************************************************************************)
(* C25.  The arrays pushed while capturing are, in their arrival order,    *)
(* the arrays of the buffers handed to the voice-activity gate followed by *)
(* the arrays still buffered: each pushed array is in exactly one place.   *)
(* When capture is off nothing is buffered, so after stop() every pushed   *)
(* array has been handed to the gate, once.  No buffer handed to the gate  *)
(* is empty, and each is emitted as at most one chunk: there are as many   *)
(* chunks as buffers the gate accepted.                                    *)
(***************************************************************************)
C25_EveryArrayGatedOnce ==
    /\ Flatten(gated) \o audioBuffer = pushed
    /\ ~isCapturing => Flatten(gated) = pushed
    /\ \A i \in DOMAIN gated : gated[i] # <<>>
    /\ Len(chunkFlags) =
           Cardinality({i \in DOMAIN gated : DetectVoiceActivity(Concatenate(gated[i]))})

\* an array of speech went to the gate on a tick and was emitted, an array of
\* silence went to it on the flush of stop() and was not
C25_TickThenFlush ==
    /\ ~isCapturing
    /\ pushed = <<"speech", "silence">>
    /\ gated = << <<"speech">>, <<"silence">> >>
    /\ Len(chunkFlags) = 1
    /\ Last(callLog).op = "stop"

(***************************************************************************)
(* C26.  Between the calls on AudioCapture: the interval of chunkInterval  *)
(* is set exactly when isCapturing is true, and it is the only interval    *)
(* that is set; when isCapturing is false audioBuffer is empty.  A call of *)
(* addAudioData while isCapturing is false leaves audioBuffer unchanged.   *)
(***************************************************************************)
C26_TimerIffCapturing ==
    /\ [](/\ isCapturing <=> chunkInterval # 0
          /\ timers = (IF isCapturing THEN {chunkInterval} ELSE {})
          /\ Cardinality(timers) <= 1
          /\ ~isCapturing => audioBuffer = <<>>)
    /\ [][(Len(callLog') > Len(callLog) /\ Last(callLog').op = "add" /\ ~isCapturing) =>
             audioBuffer' = audioBuffer]_vars

\* a session was started, fed and stopped, and audio arrived after the stop
C26_AudioAfterStop ==
    /\ Len(callLog) = 4
    /\ callLog[1].op = "start"
    /\ callLog[2].op = "add"
    /\ callLog[3].op = "stop"
    /\ callLog[4].op = "add"
    /\ ~isCapturing
    /\ audioBuffer = <<>>
    /\ timers = {}

(***************************************************************************)
(* C27.  The user message a run sends to the language model is the         *)
(* utterance of its own chunk: the speaker its diarization gave and the    *)
(* text its transcription gave.  The handler reads the last entry of       *)
(* recentTranscriptBuffer when it calls generateResponse, two awaits after *)
(* it pushed its own: an entry pushed by another run, or a clear of the    *)
(* buffer, in between breaks this.                                         *)
(***************************************************************************)
C27_UserMessageIsOwnUtterance ==
    \A c \in Chunks : Invoked(runs[c], "generateResponse") =>
        runs[c].userContent =
            Utterance([speaker |-> runs[c].diarization.speaker_id, text |-> runs[c].text])

(***************************************************************************)
(* C28.  conversationHistory has even length and alternates user,          *)
(* assistant, also with two generateResponse calls in flight and with      *)
(* clearHistory between them.  A call that returns appends its pair in one *)
(* step; a call that fails leaves the history as it was.  The code breaks  *)
(* this: on an answer of status 200 without message the user entry is      *)
(* pushed and the push of the assistant entry throws, which leaves a       *)
(* history of odd length after a failed call.                              *)
(***************************************************************************)
C28_HistoryAlternates ==
    /\ [](/\ Len(conversationHistory) % 2 = 0
          /\ \A i \in DOMAIN conversationHistory :
                 conversationHistory[i].role = (IF i % 2 = 1 THEN "user" ELSE "assistant"))
    /\ [][ \A c \in Chunks :
             (runs[c].pc = "generateResponse" /\ runs'[c].pc # "generateResponse") =>
                 IF runs'[c].error = "generateResponse"
                 THEN conversationHistory' = conversationHistory
                 ELSE /\ Len(conversationHistory') = Len(conversationHistory) + 2
                      /\ SubSeq(conversationHistory', 1, Len(conversationHistory))
                             = conversationHistory
                      /\ conversationHistory'[Len(conversationHistory) + 1].content
                             = runs[c].userContent
         ]_vars

\* the calls that go through PythonService.request
PythonMethods == ServiceMethods \ {"generateResponse"}

\* the request of PythonService that run c made last was refused
Refused(run) == run.error = Last(run.calls) /\ run.pc \notin PythonMethods

\* C29 as stated: once stop() has been called, `running` is false for good
C29_NeverRunningAfterAnyStop ==
    /\ spawns <= 1
    /\ stopsSeen # {} => ~(isReady /\ process)

(***************************************************************************)
(* C29.  The child process is spawned at most once, whatever start() and   *)
(* stop() calls are made: start() spawns only while there is no startup    *)
(* promise, and the promise is never reset, not by stop() and not by a     *)
(* failed startup.  So once stop() has been called after start(), or the   *)
(* process has exited, `running` stays false; a stop() before the first    *)
(* start() does not prevent the start.  A request made while isReady is    *)
(* false is refused before any fetch.                                      *)
(***************************************************************************)
C29_SpawnedAtMostOnce ==
    /\ [](/\ spawns <= 1
          /\ spawns = (IF startupPromise = "none" THEN 0 ELSE 1)
          /\ "afterStart" \in stopsSeen => ~(isReady /\ process))
    /\ [][ /\ startupPromise # "none" => startupPromise' # "none"
           /\ (startupPromise # "none" /\ ~process) => ~process'
           /\ \A c \in Chunks :
                  (/\ ~isReady
                   /\ Len(runs'[c].calls) > Len(runs[c].calls)
                   /\ Last(runs'[c].calls) \in PythonMethods) => Refused(runs'[c])
         ]_vars

\* the service was started and stopped, and a health check of the startup
\* answered after the stop: isReady is true and the process is gone for good
C29_StartedAgainAfterStop ==
    /\ spawns = 1
    /\ stopsSeen = {"afterStart"}
    /\ startupPromise = "resolved"
    /\ isReady
    /\ ~process

(***************************************************************************)
(* C30.  The capture hook holds at most one microphone stream, one         *)
(* processor and one audio context open, and when it is not capturing and  *)
(* no call is pending none is open.  startCapture tests isCapturingRef     *)
(* before it awaits getUserMedia and sets it after: two calls that both    *)
(* await the microphone both open a stream, and stopCapture closes only    *)
(* the one the refs point to.                                              *)
(***************************************************************************)
C30_OneStreamAtMost ==
    /\ Cardinality(openStreams) <= 1
    /\ Cardinality(openProcessors) <= 1
    /\ Cardinality(openContexts) <= 1
    /\ (~isCapturingRef /\ pendingStarts = {} /\ pendingStops = {}) =>
           openStreams = {} /\ openProcessors = {} /\ openContexts = {}

====
